---- MODULE Spec2Model ----
(***************************************************************************)
(* Report lifecycle and access-control engine of the 911 Notebook backend: *)
(* the entity store (users, reports, report_history), the role table, the  *)
(* lifecycle state machine and the report service operations.              *)
(***************************************************************************)
EXTENDS Integers, Sequences, FiniteSets, TLC

VARIABLES users, reports, history, txns, lastOp,
          organizations, wsClients, storage, procs

vars == <<users, reports, history, txns, lastOp,
          organizations, wsClients, storage, procs>>

(* ---------------------------------------------------------------------- *)
(* Bounds of the model                                                      *)
(* ---------------------------------------------------------------------- *)
\* Versions are capped: an update is only attempted below this version.
MaxVersion == 4

\* Hop limit of the upward supervisor traversal.
MaxHops == 3

None == "none"

(* ---------------------------------------------------------------------- *)
(* Types                                                                    *)
(* ---------------------------------------------------------------------- *)
UserRole ==
    {"system_admin", "dispatcher", "police_worker", "police_chief",
     "triage_nurse", "er_doctor", "er_paramedic", "er_attending"}

ReportState == {"draft", "in_progress", "under_review", "locked"}

ReportType == {"incident", "medical_chart"}

\* Organizations of the seeded deployment: one police, one medical.
OrgIds == {"orgP", "orgM"}

UserIds == {"S", "D", "W", "W2", "C", "N", "P2", "D2", "A"}

ReportIds == {"r1"}

TxnIds == {"t1", "t2"}

\* Values of the open JSON `data` mapping (two distinguishable documents):
\* reports are created with the first and patched with the second.
DataValues == {"d0", "d1"}

CreateData == {"d0", "d1"}

Results ==
    {"ok", "NotFound", "AccessDenied", "InvalidTransition",
     "ValidationError", "Conflict", "StoreUnavailable", "InternalError"}

(* ---------------------------------------------------------------------- *)
(* Users table                                                              *)
(* ---------------------------------------------------------------------- *)
User(org, role, sup) == [org_id |-> org, role |-> role, supervisor_id |-> sup]

\* Rows of a users table with every role: the police hierarchy
\* chief -> worker/dispatcher, the medical hierarchy
\* attending -> doctor -> paramedic, a worker without a supervisor, and the
\* administrator.
AllUsers ==
    [u \in UserIds |->
        CASE u = "S"  -> User("orgP", "system_admin", None)
          [] u = "D"  -> User("orgP", "dispatcher", "C")
          [] u = "W"  -> User("orgP", "police_worker", "C")
          [] u = "W2" -> User("orgP", "police_worker", None)
          [] u = "C"  -> User("orgP", "police_chief", None)
          [] u = "N"  -> User("orgM", "triage_nurse", "A")
          [] u = "P2" -> User("orgM", "er_paramedic", "D2")
          [] u = "D2" -> User("orgM", "er_doctor", "A")
          [] u = "A"  -> User("orgM", "er_attending", None)]

\* The users of the report lifecycle test: administrator, dispatcher, police
\* worker and police chief of one organization (the worker reports to the
\* chief, the dispatcher to nobody), and an attending of another organization.
LifecycleUserIds == {"S", "D", "W", "C", "A"}

SeedUsers ==
    [u \in LifecycleUserIds |->
        IF u = "D" THEN User("orgP", "dispatcher", None) ELSE AllUsers[u]]

(* ---------------------------------------------------------------------- *)
(* Role table                                                               *)
(* ---------------------------------------------------------------------- *)
Rule(states, condition) == [states |-> states, condition |-> condition]

RoleRow(sup, create, edit, del, review) ==
    [canSupervise |-> sup, canCreate |-> create, canEdit |-> edit,
     canDelete |-> del, canReview |-> review]

SystemAdminRow == RoleRow({}, {}, {}, {}, FALSE)

DispatcherRow ==
    RoleRow({}, {"incident"},
            {Rule({"draft"}, "owned")},
            {Rule({"draft"}, "owned")}, FALSE)

\* (Variant: the worker's edit rule reaches locked reports.)
PoliceWorkerRowEditsLocked ==
    RoleRow({}, {"incident"},
            {Rule({"draft", "in_progress", "locked"}, "assigned")},
            {Rule({"draft"}, "assigned")}, FALSE)

PoliceWorkerRow ==
    RoleRow({}, {"incident"},
            {Rule({"draft", "in_progress"}, "assigned")},
            {Rule({"draft"}, "assigned")}, FALSE)

\* (Variant: the chief edits any report, supervised assignee or not.)
PoliceChiefRowEditsAny ==
    RoleRow({"police_worker", "dispatcher"}, {"incident"},
            {Rule({"draft", "in_progress"}, "any")},
            {Rule({"draft"}, "supervised")}, TRUE)

PoliceChiefRow ==
    RoleRow({"police_worker", "dispatcher"}, {"incident"},
            {Rule({"draft", "in_progress"}, "supervised")},
            {Rule({"draft"}, "supervised")}, TRUE)

TriageNurseRow ==
    RoleRow({}, {"medical_chart"},
            {Rule({"draft"}, "owned")},
            {Rule({"draft"}, "owned")}, FALSE)

ErParamedicRow ==
    RoleRow({}, {"medical_chart"},
            {Rule({"draft", "in_progress"}, "assigned")},
            {Rule({"draft"}, "assigned")}, FALSE)

ErDoctorRow ==
    RoleRow({"er_paramedic"}, {"medical_chart"},
            {Rule({"draft", "in_progress"}, "assigned")},
            {Rule({"draft"}, "supervised")}, FALSE)

ErAttendingRow ==
    RoleRow({"er_doctor", "triage_nurse", "er_paramedic"}, {"medical_chart"},
            {Rule({"draft", "in_progress"}, "supervised")},
            {Rule({"draft"}, "supervised")}, TRUE)

ROLE_PERMISSIONS ==
    [role \in UserRole |->
        CASE role = "system_admin"  -> SystemAdminRow
          [] role = "dispatcher"    -> DispatcherRow
          [] role = "police_worker" -> PoliceWorkerRow
          [] role = "police_chief"  -> PoliceChiefRow
          [] role = "triage_nurse"  -> TriageNurseRow
          [] role = "er_paramedic"  -> ErParamedicRow
          [] role = "er_doctor"     -> ErDoctorRow
          [] role = "er_attending"  -> ErAttendingRow]

(* ---------------------------------------------------------------------- *)
(* Permission evaluator                                                     *)
(* ---------------------------------------------------------------------- *)
IsAdmin(actor) == users[actor].role = "system_admin"

\* TRUE iff `actor` is met when following supervisor_id upward from user u,
\* within n hops.
RECURSIVE ReachableUp(_, _, _)
ReachableUp(actor, u, n) ==
    IF n = 0 \/ u = None
    THEN FALSE
    ELSE LET s == users[u].supervisor_id
         IN  s # None /\ (s = actor \/ ReachableUp(actor, s, n - 1))

Supervises(actor, u) == ReachableUp(actor, u, MaxHops)

\* condition: 'owned' | 'assigned' | 'supervised' | 'any'
ConditionHolds(condition, actor, r) ==
    CASE condition = "owned"      -> r.created_by = actor
      [] condition = "assigned"   -> r.assigned_to = actor
      [] condition = "supervised" -> Supervises(actor, r.assigned_to)
      [] condition = "any"        -> TRUE

RuleGrants(rules, actor, r) ==
    \E rule \in rules :
        r.state \in rule.states /\ ConditionHolds(rule.condition, actor, r)

\* (Variant: the administrator's override reaches locked reports.)
AdminOverrideAlways(r) == r.state \in ReportState

\* System admins have full access; a locked report is read-only for all.
AdminOverride(r) == r.state # "locked"

\* Chiefs and attendings edit the reports of their organization that are
\* under review.
ReviewerEditsUnderReview(actor, r) ==
    /\ ROLE_PERMISSIONS[users[actor].role].canReview
    /\ users[actor].org_id = r.org_id
    /\ r.state = "under_review"

CanEdit(actor, r) ==
    IF IsAdmin(actor)
    THEN AdminOverride(r)
    ELSE \/ RuleGrants(ROLE_PERMISSIONS[users[actor].role].canEdit, actor, r)
         \/ ReviewerEditsUnderReview(actor, r)

\* DELETE /api/reports/{id}: draft reports, by the creator only; system
\* admins have full access.
CanDelete(actor, r) ==
    r.state = "draft" /\ (IsAdmin(actor) \/ r.created_by = actor)

\* (Variant: only the administrator reviews.)
IsReviewerAdminOnly(actor) == IsAdmin(actor)

\* Reviewer roles: the roles with canReview, and the administrator.
IsReviewer(actor) ==
    IsAdmin(actor) \/ ROLE_PERMISSIONS[users[actor].role].canReview

CanReview(actor, r) ==
    IsReviewer(actor) /\ users[actor].org_id = r.org_id

\* (Variant: only the creator and the assignee see a report.)
CanViewOwnOnly(actor, r) ==
    r.created_by = actor \/ r.assigned_to = actor

\* can_user_access_report(): system admins; the users' own and assigned
\* reports; supervisors, their subordinates' reports; chiefs and attendings,
\* all reports of their organization.
CanView(actor, r) ==
    \/ IsAdmin(actor)
    \/ r.created_by = actor
    \/ r.assigned_to = actor
    \/ Supervises(actor, r.assigned_to)
    \/ /\ ROLE_PERMISSIONS[users[actor].role].canReview
       /\ users[actor].org_id = r.org_id

CanCreate(actor, schema_type) ==
    IsAdmin(actor) \/ schema_type \in ROLE_PERMISSIONS[users[actor].role].canCreate

(* ---------------------------------------------------------------------- *)
(* Lifecycle state machine                                                  *)
(* ---------------------------------------------------------------------- *)
\* (Variant: a locked report can be reopened.)
ValidTransitionsReopen ==
    {<<"draft", "in_progress">>, <<"draft", "locked">>,
     <<"in_progress", "under_review">>, <<"in_progress", "draft">>,
     <<"under_review", "locked">>, <<"under_review", "in_progress">>,
     <<"locked", "in_progress">>}

\* (Variant: no submission for review.)
ValidTransitionsNoSubmit ==
    {<<"draft", "in_progress">>, <<"draft", "locked">>,
     <<"in_progress", "draft">>, <<"under_review", "locked">>,
     <<"under_review", "in_progress">>}

ValidTransitions ==
    {<<"draft", "in_progress">>, <<"draft", "locked">>,
     <<"in_progress", "under_review">>, <<"in_progress", "draft">>,
     <<"under_review", "locked">>, <<"under_review", "in_progress">>}

\* Moves out of under_review and moves out of or into locked need a reviewer;
\* the other moves need edit permission.
TransitionPermitted(actor, r, to) ==
    IF r.state \in {"under_review", "locked"} \/ to = "locked"
    THEN CanReview(actor, r)
    ELSE CanEdit(actor, r)

(* ---------------------------------------------------------------------- *)
(* Report service                                                           *)
(* ---------------------------------------------------------------------- *)
\* Column defaults of the reports table.
\* (Variant: a new report starts in_progress.)
DefaultStateInProgress == "in_progress"

DefaultState == "draft"

DefaultVersionSkewed == 1 + 1

DefaultVersion == 1

Patch(state, data, assigned_to) ==
    [state |-> state, data |-> data, assigned_to |-> assigned_to]

\* The patches tried: every requested state with and without data, data
\* alone, a new assignee alone (of either organization), and the empty patch.
Patches ==
    {Patch(s, d, None) : s \in ReportState \cup {None}, d \in {None, "d1"}}
        \cup {Patch(None, None, a) : a \in {"W", "A"}}

HistoryEntry(actor, data, version) ==
    [modified_by |-> actor, data |-> data, version |-> version]

\* What the caller gets back, with the request it answers: the state the
\* handler read (from), the state, data and assignee the patch asked for
\* and, for create, the schema_type asked for.
\* No broadcast was attempted.
NoBroadcast ==
    [reportId |-> None, change |-> [field |-> None, value |-> None],
     outcome |-> None]

Response(op, actor, rid, schema_type, from, to, data, assign, result) ==
    [op |-> op, actor |-> actor, rid |-> rid, schema_type |-> schema_type,
     from |-> from, to |-> to, data |-> data, assign |-> assign,
     result |-> result, body |-> None, broadcast |-> NoBroadcast]

\* The answer to a read: the request it answers and what it returns.
ReadResponse(op, actor, rid, result, body) ==
    [Response(op, actor, rid, None, None, None, None, None, result)
        EXCEPT !.body = body]

\* (Variant: a failed publish is logged and the call returns normally.)
broadcastReportChangeLogOnly(reportId, change, publishOk) ==
    [reportId |-> reportId, change |-> change,
     outcome |-> IF publishOk THEN "published" ELSE "logged"]

\* broadcastReportChange(reportId, change): publishes {reportId, timestamp,
\* change} on the topic reports/<reportId>/updates; when the publish fails
\* the error is logged and thrown again to the caller.
broadcastReportChange(reportId, change, publishOk) ==
    [reportId |-> reportId, change |-> change,
     outcome |-> IF publishOk THEN "published" ELSE "thrown"]

\* The changes callers hand to the broadcaster: a field and its new value.
Changes == [field : {"status"}, value : ReportState]

\* A WebSocket connection of the server: the user behind it (the server
\* keeps no identity of a connection), its readyState and the message it
\* received last.
NoMessage == [type |-> None, reportId |-> None, change |-> NoBroadcast.change]

WsClient(user, readyState, received) ==
    [user |-> user, readyState |-> readyState, received |-> received]

\* (Variant: only the clients of users who may view the report receive it.)
broadcastToLocalClientsAuthorized(reportId, change) ==
    LET message == [type |-> "report_update", reportId |-> reportId,
                    change |-> change]
    IN  [c \in DOMAIN wsClients |->
            IF /\ wsClients[c].readyState = "OPEN"
               /\ reportId \in DOMAIN reports
               /\ wsClients[c].user \in DOMAIN users
               /\ users[wsClients[c].user].org_id = reports[reportId].org_id
               /\ CanView(wsClients[c].user, reports[reportId])
            THEN [wsClients[c] EXCEPT !.received = message]
            ELSE wsClients[c]]

\* broadcastToLocalClients(reportId, change): the message is sent to every
\* client of the server whose connection is open.
broadcastToLocalClients(reportId, change) ==
    LET message == [type |-> "report_update", reportId |-> reportId,
                    change |-> change]
    IN  [c \in DOMAIN wsClients |->
            IF wsClients[c].readyState = "OPEN"
            THEN [wsClients[c] EXCEPT !.received = message]
            ELSE wsClients[c]]

\* A call of the broadcaster: after the publish the change is sent to the
\* local clients and the caller is answered; when the publish fails nothing
\* is sent and the caller receives the error.
Broadcast(reportId, change, publishOk) ==
    LET b == broadcastReportChange(reportId, change, publishOk)
    IN  /\ lastOp' = [Response("broadcast", None, reportId, None, None, None,
                                None, None,
                                IF b.outcome = "thrown"
                                THEN "InternalError" ELSE "ok")
                         EXCEPT !.broadcast = b]
        /\ wsClients' = IF publishOk
                        THEN broadcastToLocalClients(reportId, change)
                        ELSE wsClients
        /\ UNCHANGED <<users, reports, history, txns>>

NoResponse == Response(None, None, None, None, None, None, None, None, None)

\* A client session between its fetch of a report and the update it sends:
\* the report it holds and the version it read.
Txn(status, actor, rid, read) ==
    [status |-> status, actor |-> actor, rid |-> rid, read |-> read]

NoTxn == Txn("idle", None, None, 0)

\* (Variant: the new assignee's organization is not compared.)
UpdateOutcomeAnyAssignee(actor, r, patch) ==
    IF patch.state = None /\ patch.data = None /\ patch.assigned_to = None
    THEN "ValidationError"
    ELSE IF patch.state # None /\ <<r.state, patch.state>> \notin ValidTransitions
    THEN "InvalidTransition"
    ELSE IF patch.state # None /\ ~TransitionPermitted(actor, r, patch.state)
    THEN "AccessDenied"
    ELSE IF (patch.data # None \/ patch.assigned_to # None) /\ ~CanEdit(actor, r)
    THEN "AccessDenied"
    ELSE "ok"

\* (Variant: the data permission is evaluated on the state the patch asks
\* for.)
UpdateOutcomeEditAfterMove(actor, r, patch) ==
    IF patch.state = None /\ patch.data = None /\ patch.assigned_to = None
    THEN "ValidationError"
    ELSE IF patch.state # None /\ <<r.state, patch.state>> \notin ValidTransitions
    THEN "InvalidTransition"
    ELSE IF patch.state # None /\ ~TransitionPermitted(actor, r, patch.state)
    THEN "AccessDenied"
    ELSE IF (patch.data # None \/ patch.assigned_to # None)
            /\ ~CanEdit(actor, [r EXCEPT !.state = IF patch.state # None
                                                   THEN patch.state ELSE @])
    THEN "AccessDenied"
    ELSE IF patch.assigned_to # None
            /\ users[patch.assigned_to].org_id # r.org_id
    THEN "ValidationError"
    ELSE "ok"

\* Verdict of update on the report row r the handler read.
UpdateOutcome(actor, r, patch) ==
    IF patch.state = None /\ patch.data = None /\ patch.assigned_to = None
    THEN "ValidationError"
    ELSE IF patch.state # None /\ <<r.state, patch.state>> \notin ValidTransitions
    THEN "InvalidTransition"
    ELSE IF patch.state # None /\ ~TransitionPermitted(actor, r, patch.state)
    THEN "AccessDenied"
    ELSE IF (patch.data # None \/ patch.assigned_to # None) /\ ~CanEdit(actor, r)
    THEN "AccessDenied"
    ELSE IF patch.assigned_to # None
            /\ users[patch.assigned_to].org_id # r.org_id
    THEN "ValidationError"
    ELSE "ok"

\* (Variant: a state-only change does not advance the version.)
ApplyPatchNoBumpOnState(r, patch) ==
    [r EXCEPT !.state = IF patch.state # None THEN patch.state ELSE @,
              !.data = IF patch.data # None THEN patch.data ELSE @,
              !.assigned_to =
                  IF patch.assigned_to # None THEN patch.assigned_to ELSE @,
              !.version = IF patch.data = None /\ patch.assigned_to = None
                          THEN @ ELSE @ + 1]

\* The report row an accepted patch produces.
ApplyPatch(r, patch) ==
    [r EXCEPT !.state = IF patch.state # None THEN patch.state ELSE @,
              !.data = IF patch.data # None THEN patch.data ELSE @,
              !.assigned_to =
                  IF patch.assigned_to # None THEN patch.assigned_to ELSE @,
              !.version = @ + 1]

\* (Variant: the history row of the report is rewritten in place.)
CommitUpdateOverwrite(actor, rid, r, patch) ==
    LET n == ApplyPatch(r, patch)
    IN  /\ reports' = [reports EXCEPT ![rid] = n]
        /\ history' = [history EXCEPT
                          ![rid] = [i \in 1..n.version |->
                                       HistoryEntry(actor, n.data, i)]]

\* (Variant: the history row holds the patch, not the resulting data.)
CommitUpdateDiff(actor, rid, r, patch) ==
    LET n == ApplyPatch(r, patch)
    IN  /\ reports' = [reports EXCEPT ![rid] = n]
        /\ history' = [history EXCEPT
                          ![rid] = Append(@, HistoryEntry(actor, patch.data,
                                                          n.version))]

\* The single transaction of an accepted update: the report row and its
\* history row are written together.
CommitUpdate(actor, rid, r, patch) ==
    LET n == ApplyPatch(r, patch)
    IN  /\ reports' = [reports EXCEPT ![rid] = n]
        /\ history' = [history EXCEPT
                          ![rid] = Append(@, HistoryEntry(actor, n.data, n.version))]

\* An organization row.
Organization(name, type) == [name |-> name, type |-> type]

OrgType == {"police", "medical"}

\* The organizations of the seeded deployment.
SeedOrganizations ==
    [o \in OrgIds |-> IF o = "orgP" THEN Organization("pd", "police")
                                    ELSE Organization("er", "medical")]

\* The client's AsyncStorage: the items 'authToken' and 'user'.
NoSession == [authToken |-> None, user |-> None]

\* The asynchronous calls of the client that can be in progress at once.
ProcIds == {"p1", "p2"}

\* A call of the client: the handler it runs, the await it stands before and
\* what it holds (the token of the login, whether the login threw).
Proc(kind, at, token) == [kind |-> kind, at |-> at, token |-> token]

NoProc == Proc(None, None, None)

\* What the backend operations leave alone: the organizations, the
\* WebSocket connections and the state of the client.
Elsewhere == <<organizations, wsClients, storage, procs>>

Init ==
    /\ users = SeedUsers
    /\ organizations = SeedOrganizations
    /\ wsClients = << >>
    /\ storage = NoSession
    /\ procs = [p \in ProcIds |-> NoProc]
    /\ reports = << >>
    /\ history = << >>
    /\ txns = [t \in TxnIds |-> NoTxn]
    /\ lastOp = NoResponse

\* Ids a new report can get: ids are generated, so neither a stored row nor
\* a request in flight names a new id.
FreshIds ==
    {rid \in ReportIds \ DOMAIN reports : \A t \in TxnIds : txns[t].rid # rid}

\* create(actor, schema_type, assigned_to, data)
Create(actor, schema_type, assigned_to, data) ==
    \E rid \in FreshIds :
        LET res == IF ~CanCreate(actor, schema_type) THEN "AccessDenied"
                   ELSE IF users[assigned_to].org_id # users[actor].org_id
                   THEN "ValidationError"
                   ELSE "ok"
        IN  /\ lastOp' = Response("create", actor, rid, schema_type, None,
                                  None, data, assigned_to, res)
            /\ IF res = "ok"
               THEN /\ reports' = (rid :> [org_id |-> users[actor].org_id,
                                           created_by |-> actor,
                                           assigned_to |-> assigned_to,
                                           state |-> DefaultState,
                                           schema_type |-> schema_type,
                                           data |-> data,
                                           version |-> DefaultVersion]) @@ reports
                    /\ history' = (rid :> <<HistoryEntry(actor, data, 1)>>) @@ history
               ELSE UNCHANGED <<reports, history>>
            /\ UNCHANGED <<users, txns>>

\* update(actor, report_id, patch), run as one transaction.
Update(actor, rid, patch) ==
    /\ LET found == rid \in DOMAIN reports
           res == IF ~found THEN "NotFound"
                  ELSE UpdateOutcome(actor, reports[rid], patch)
       IN  /\ lastOp' = Response("update", actor, rid, None,
                                 IF found THEN reports[rid].state ELSE None,
                                 patch.state, patch.data,
                                 patch.assigned_to, res)
           /\ IF res = "ok"
              THEN CommitUpdate(actor, rid, reports[rid], patch)
              ELSE UNCHANGED <<reports, history>>
    /\ UNCHANGED users

\* (Variant: the history rows are removed before the checks, outside the
\* transaction.)
DeleteHistoryFirst(actor, rid) ==
    /\ LET found == rid \in DOMAIN reports
           res == IF ~found THEN "NotFound"
                  ELSE IF reports[rid].state # "draft" THEN "ValidationError"
                  ELSE IF ~CanDelete(actor, reports[rid]) THEN "AccessDenied"
                  ELSE "ok"
       IN  /\ lastOp' = Response("delete", actor, rid, None,
                                 IF found THEN reports[rid].state ELSE None,
                                 None, None, None, res)
           /\ history' = [x \in DOMAIN history \ {rid} |-> history[x]]
           /\ IF res = "ok"
              THEN reports' = [x \in DOMAIN reports \ {rid} |-> reports[x]]
              ELSE UNCHANGED reports
    /\ UNCHANGED <<users, txns>>

\* delete(actor, report_id): the report and, by cascade, its history rows.
Delete(actor, rid) ==
    /\ LET found == rid \in DOMAIN reports
           res == IF ~found THEN "NotFound"
                  ELSE IF reports[rid].state # "draft" THEN "ValidationError"
                  ELSE IF ~CanDelete(actor, reports[rid]) THEN "AccessDenied"
                  ELSE "ok"
       IN  /\ lastOp' = Response("delete", actor, rid, None,
                                 IF found THEN reports[rid].state ELSE None,
                                 None, None, None, res)
           /\ IF res = "ok"
              THEN /\ reports' = [x \in DOMAIN reports \ {rid} |-> reports[x]]
                   /\ history' = [x \in DOMAIN history \ {rid} |-> history[x]]
              ELSE UNCHANGED <<reports, history>>
    /\ UNCHANGED <<users, txns>>

\* Verdict of a read of report rid by actor.
ReadOutcome(actor, rid) ==
    IF rid \notin DOMAIN reports THEN "NotFound"
    ELSE IF ~CanView(actor, reports[rid]) THEN "AccessDenied"
    ELSE "ok"

\* get(actor, report_id)
Get(actor, rid) ==
    /\ LET res == ReadOutcome(actor, rid)
       IN  lastOp' = ReadResponse("get", actor, rid, res,
                                  IF res = "ok" THEN reports[rid] ELSE None)
    /\ UNCHANGED <<users, reports, history, txns>>

\* history(actor, report_id): the entries by version ascending.
History(actor, rid) ==
    /\ LET res == ReadOutcome(actor, rid)
       IN  lastOp' = ReadResponse("history", actor, rid, res,
                                  IF res = "ok" THEN history[rid] ELSE None)
    /\ UNCHANGED <<users, reports, history, txns>>

\* list_by_organization(): the reports of the actor's organization, with the
\* filters state and assigned_to.
list_by_organization(org, state, assigned_to) ==
    {rid \in DOMAIN reports :
        /\ reports[rid].org_id = org
        /\ state # None => reports[rid].state = state
        /\ assigned_to # None => reports[rid].assigned_to = assigned_to}

\* list(actor, {state?, assigned_to_me?}): GET /api/reports/
List(actor, state, assigned_to_me) ==
    /\ lastOp' = [ReadResponse("list", actor, None, "ok",
                      list_by_organization(users[actor].org_id, state,
                          IF assigned_to_me THEN actor ELSE None))
                     EXCEPT !.to = state,
                            !.assign = IF assigned_to_me THEN actor ELSE None]
    /\ UNCHANGED <<users, reports, history, txns>>

\* The transaction layer fails (connectivity, timeout): the operation is
\* rolled back as a whole and answers StoreUnavailable.
StoreFailure(op) ==
    /\ lastOp' = Response(op, None, None, None, None, None, None, None,
                          "StoreUnavailable")
    /\ UNCHANGED <<users, reports, history, txns>>

\* The caller receives the response; the service handles the next request.
Respond ==
    /\ lastOp.op # None
    /\ lastOp' = NoResponse
    /\ UNCHANGED <<users, reports, history, txns>>
    /\ UNCHANGED Elsewhere

Idle == lastOp.op = None

(* ---------------------------------------------------------------------- *)
(* Client sessions: a client fetches a report, then sends an update         *)
(* ---------------------------------------------------------------------- *)
\* The users and patches of the interleaving runs.
ConcUserIds == {"W", "C", "A"}

ConcUsers == [u \in ConcUserIds |-> AllUsers[u]]

ConcPatches ==
    {Patch("in_progress", None, None), Patch("under_review", None, None),
     Patch("locked", None, None), Patch(None, "d1", None),
     Patch(None, None, "A")}

\* getReport: the client of session t fetches the report and holds the
\* version it read.
getReport(t, actor, rid) ==
    /\ txns[t].status = "idle"
    /\ rid \in DOMAIN reports
    /\ txns' = [txns EXCEPT ![t] = Txn("read", actor, rid, reports[rid].version)]
    /\ UNCHANGED <<users, reports, history, lastOp>>

\* updateReport: the client sends its patch. The request body carries data,
\* state and assigned_to and no version, so the handler runs update against
\* the row as it is stored now.
updateReport(t, patch) ==
    /\ txns[t].status = "read"
    /\ Update(txns[t].actor, txns[t].rid, patch)
    /\ txns' = [txns EXCEPT ![t] = NoTxn]

CreateOp ==
    /\ Idle
    /\ \E actor \in DOMAIN users, schema_type \in ReportType,
          assigned_to \in DOMAIN users, data \in CreateData :
           Create(actor, schema_type, assigned_to, data)
    /\ UNCHANGED Elsewhere

\* Bound of the model: no update is committed at MaxVersion.
BelowCap(actor, rid, patch) ==
    (rid \in DOMAIN reports /\ reports[rid].version >= MaxVersion)
        => UpdateOutcome(actor, reports[rid], patch) # "ok"

UpdateOp ==
    /\ Idle
    /\ \E actor \in DOMAIN users, rid \in ReportIds, patch \in Patches :
           /\ BelowCap(actor, rid, patch)
           /\ Update(actor, rid, patch)
           /\ UNCHANGED txns
    /\ UNCHANGED Elsewhere

DeleteOp ==
    /\ Idle
    /\ \E actor \in DOMAIN users, rid \in ReportIds : Delete(actor, rid)
    /\ UNCHANGED Elsewhere

StoreFailureOp ==
    /\ Idle
    /\ \E op \in {"create", "update", "delete"} : StoreFailure(op)
    /\ UNCHANGED Elsewhere

\* The broadcaster is called for a report and a change.
BroadcastOp ==
    /\ Idle
    /\ \E reportId \in ReportIds, change \in Changes, publishOk \in BOOLEAN :
           Broadcast(reportId, change, publishOk)
    /\ UNCHANGED <<organizations, storage, procs>>

GetOp ==
    /\ Idle
    /\ \E actor \in DOMAIN users, rid \in ReportIds : Get(actor, rid)
    /\ UNCHANGED Elsewhere

HistoryOp ==
    /\ Idle
    /\ \E actor \in DOMAIN users, rid \in ReportIds : History(actor, rid)
    /\ UNCHANGED Elsewhere

\* The lifecycle operations and the read of the audit trail.
Next ==
    \/ CreateOp \/ UpdateOp \/ DeleteOp \/ HistoryOp \/ StoreFailureOp
    \/ BroadcastOp \/ Respond

Spec == Init /\ [][Next]_vars

InitConc ==
    /\ users = ConcUsers
    /\ organizations = SeedOrganizations
    /\ wsClients = << >>
    /\ storage = NoSession
    /\ procs = [p \in ProcIds |-> NoProc]
    /\ reports = << >>
    /\ history = << >>
    /\ txns = [t \in TxnIds |-> NoTxn]
    /\ lastOp = NoResponse

getReportOp ==
    /\ Idle
    /\ \E t \in TxnIds, actor \in DOMAIN users, rid \in ReportIds :
           getReport(t, actor, rid)
    /\ UNCHANGED Elsewhere

updateReportOp ==
    /\ Idle
    /\ \E t \in TxnIds, patch \in ConcPatches :
           /\ txns[t].status = "read"
           /\ BelowCap(txns[t].actor, txns[t].rid, patch)
           /\ updateReport(t, patch)
    /\ UNCHANGED Elsewhere

NextConc ==
    \/ CreateOp \/ getReportOp \/ updateReportOp \/ DeleteOp
    \/ StoreFailureOp \/ Respond

SpecConc == InitConc /\ [][NextConc]_vars

(* ---------------------------------------------------------------------- *)
(* One request against every stored report                                  *)
(* ---------------------------------------------------------------------- *)
\* The reviewer who locks the reports of an organization.
OrgReviewer(org) == IF org = "orgP" THEN "C" ELSE "A"

\* A report created by c for assignee a and taken to state st by the
\* administrator (draft -> in_progress -> under_review) and the reviewer of
\* its organization (under_review -> locked), with the history rows these
\* steps wrote.
StoredVersion(st) ==
    CASE st = "draft" -> 1
      [] st = "in_progress" -> 2
      [] st = "under_review" -> 3
      [] st = "locked" -> 4

StoredReport(c, schema_type, a, st) ==
    [org_id |-> AllUsers[c].org_id, created_by |-> c, assigned_to |-> a,
     state |-> st, schema_type |-> schema_type, data |-> "d0",
     version |-> StoredVersion(st)]

StoredHistory(c, st) ==
    SubSeq(<<HistoryEntry(c, "d0", 1), HistoryEntry("S", "d0", 2),
             HistoryEntry("S", "d0", 3),
             HistoryEntry(OrgReviewer(AllUsers[c].org_id), "d0", 4)>>,
           1, StoredVersion(st))

InitPerm ==
    /\ users = AllUsers
    /\ organizations = SeedOrganizations
    /\ wsClients = << >>
    /\ storage = NoSession
    /\ procs = [p \in ProcIds |-> NoProc]
    /\ txns = [t \in TxnIds |-> NoTxn]
    /\ lastOp = NoResponse
    /\ \/ reports = << >> /\ history = << >>
       \/ \E c \in UserIds, a \in UserIds, schema_type \in ReportType,
             st \in ReportState, rid \in ReportIds :
              /\ CanCreate(c, schema_type)
              /\ AllUsers[a].org_id = AllUsers[c].org_id
              /\ reports = (rid :> StoredReport(c, schema_type, a, st))
              /\ history = (rid :> StoredHistory(c, st))

ListOp ==
    /\ Idle
    /\ \E actor \in DOMAIN users, state \in ReportState \cup {None},
          assigned_to_me \in BOOLEAN :
           List(actor, state, assigned_to_me)
    /\ UNCHANGED Elsewhere

NextPerm ==
    CreateOp \/ UpdateOp \/ DeleteOp \/ GetOp \/ HistoryOp \/ ListOp

SpecPerm == InitPerm /\ [][NextPerm]_vars

(* ---------------------------------------------------------------------- *)
(* Organizations                                                            *)
(* ---------------------------------------------------------------------- *)
\* requireRole(...allowedRoles): the role is read from the claims of the
\* caller's token, which are those of the Cognito account.
requireRole(allowedRoles, actor) == AllUsers[actor].role \in allowedRoles

\* The answer of an organization or user route: the id it names and the
\* body of the request.
AdminResponse(op, actor, id, body, result) ==
    [Response(op, actor, id, None, None, None, None, None, result)
        EXCEPT !.body = body]

\* Ids a new organization can get.
NewOrgIds == {"orgX"}

OrgNames == {"pd", "hq"}

\* The type values requests carry: the two kinds and one the CHECK
\* constraint of the table refuses.
TypeInputs == OrgType \cup {"fire"}

\* The bodies of PATCH /api/organizations/:id.
OrgUpdates == [name : {None, "hq"}, type : {None} \cup TypeInputs]

\* POST /api/organizations: createOrganization(name, type)
createOrganization(actor, name, type) ==
    \E id \in NewOrgIds \ DOMAIN organizations :
        LET res == IF ~requireRole({"system_admin"}, actor) THEN "AccessDenied"
                   ELSE IF type \notin OrgType THEN "ValidationError"
                   ELSE "ok"
        IN  /\ lastOp' = AdminResponse("createOrganization", actor, id,
                                       Organization(name, type), res)
            /\ organizations' = IF res = "ok"
                                THEN (id :> Organization(name, type))
                                         @@ organizations
                                ELSE organizations
            /\ UNCHANGED <<users, reports, history, txns>>

\* (Variant: the update skips the type of the request.)
updateOrganizationNameOnly(actor, id, updates) ==
    LET res == IF ~requireRole({"system_admin"}, actor) THEN "AccessDenied"
               ELSE IF id \notin DOMAIN organizations THEN "NotFound"
               ELSE "ok"
    IN  /\ lastOp' = AdminResponse("updateOrganization", actor, id, updates,
                                   res)
        /\ organizations' =
               IF res = "ok"
               THEN [organizations EXCEPT
                        ![id].name = IF updates.name # None
                                     THEN updates.name ELSE @]
               ELSE organizations
        /\ UNCHANGED <<users, reports, history, txns>>

\* PATCH /api/organizations/:id: updateOrganization(id, updates) sets the
\* name and the type the request carries; a type the table refuses fails the
\* statement.
updateOrganization(actor, id, updates) ==
    LET res == IF ~requireRole({"system_admin"}, actor) THEN "AccessDenied"
               ELSE IF id \notin DOMAIN organizations THEN "NotFound"
               ELSE IF updates.type # None /\ updates.type \notin OrgType
               THEN "InternalError"
               ELSE "ok"
    IN  /\ lastOp' = AdminResponse("updateOrganization", actor, id, updates,
                                   res)
        /\ organizations' =
               IF res = "ok"
               THEN [organizations EXCEPT
                        ![id].name = IF updates.name # None
                                     THEN updates.name ELSE @,
                        ![id].type = IF updates.type # None
                                     THEN updates.type ELSE @]
               ELSE organizations
        /\ UNCHANGED <<users, reports, history, txns>>

\* The rows that would keep a reference to a removed user: a supervised
\* user, a report created by or assigned to them, a history row they wrote.
ReferencedFrom(removed, us, rs) ==
    \/ \E u \in us : users[u].supervisor_id \in removed
    \/ \E rid \in rs :
          \/ reports[rid].created_by \in removed
          \/ reports[rid].assigned_to \in removed
          \/ \E i \in 1..Len(history[rid]) :
                history[rid][i].modified_by \in removed

\* DELETE /api/organizations/:id: deleteOrganization(id). The users and the
\* reports of the organization go with it (ON DELETE CASCADE) and the
\* history rows with the reports; the statement fails when a row that stays
\* references a user that goes.
deleteOrganization(actor, id) ==
    LET goneUsers == {u \in DOMAIN users : users[u].org_id = id}
        keptUsers == DOMAIN users \ goneUsers
        keptReports == {rid \in DOMAIN reports : reports[rid].org_id # id}
        res == IF ~requireRole({"system_admin"}, actor) THEN "AccessDenied"
               ELSE IF id \notin DOMAIN organizations THEN "NotFound"
               ELSE IF ReferencedFrom(goneUsers, keptUsers, keptReports)
               THEN "InternalError"
               ELSE "ok"
    IN  /\ lastOp' = AdminResponse("deleteOrganization", actor, id, None, res)
        /\ IF res = "ok"
           THEN /\ organizations' = [o \in DOMAIN organizations \ {id} |->
                                        organizations[o]]
                /\ users' = [u \in keptUsers |-> users[u]]
                /\ reports' = [rid \in keptReports |-> reports[rid]]
                /\ history' = [rid \in keptReports |-> history[rid]]
           ELSE UNCHANGED <<organizations, users, reports, history>>
        /\ UNCHANGED txns

\* The callers of the organization routes: the administrator and a chief.
OrgActors == {"S", "C"}

createOrganizationOp ==
    /\ Idle
    /\ \E actor \in OrgActors, name \in OrgNames, type \in TypeInputs :
           createOrganization(actor, name, type)
    /\ UNCHANGED <<wsClients, storage, procs>>

updateOrganizationOp ==
    /\ Idle
    /\ \E actor \in OrgActors, id \in OrgIds \cup NewOrgIds,
          updates \in OrgUpdates :
           updateOrganization(actor, id, updates)
    /\ UNCHANGED <<wsClients, storage, procs>>

deleteOrganizationOp ==
    /\ Idle
    /\ \E actor \in OrgActors, id \in OrgIds \cup NewOrgIds :
           deleteOrganization(actor, id)
    /\ UNCHANGED <<wsClients, storage, procs>>

NextOrg ==
    \/ createOrganizationOp \/ updateOrganizationOp \/ deleteOrganizationOp
    \/ Respond

SpecOrg == Init /\ [][NextOrg]_vars

(* ---------------------------------------------------------------------- *)
(* Users                                                                    *)
(* ---------------------------------------------------------------------- *)
\* A field the body of an update does not carry (undefined), as opposed to
\* one it sets to null (None).
Unset == "undefined"

\* POST /api/users: createUser(cognitoSub, orgId, email, role,
\* supervisorId). The row is inserted as given; the statement fails when the
\* organization or the supervisor is not a stored row.
createUser(actor, id, orgId, role, supervisorId) ==
    LET res == IF ~requireRole({"system_admin"}, actor) THEN "AccessDenied"
               ELSE IF orgId \notin DOMAIN organizations
                       \/ (supervisorId # None
                             /\ supervisorId \notin DOMAIN users)
               THEN "InternalError"
               ELSE "ok"
    IN  /\ lastOp' = AdminResponse("createUser", actor, id, None, res)
        /\ users' = IF res = "ok"
                    THEN (id :> User(orgId, role, supervisorId)) @@ users
                    ELSE users
        /\ UNCHANGED <<reports, history, txns, organizations>>

\* updateUser(id, updates): sets the role and the supervisor_id the updates
\* carry; the statement fails when the new supervisor is not a stored row.
updateUser(id, updates) ==
    LET res == IF id \notin DOMAIN users THEN "NotFound"
               ELSE IF updates.supervisor_id \notin {Unset, None}
                       /\ updates.supervisor_id \notin DOMAIN users
               THEN "InternalError"
               ELSE "ok"
    IN  /\ lastOp' = AdminResponse("updateUser", None, id, None, res)
        /\ users' =
               IF res = "ok"
               THEN [users EXCEPT
                        ![id].role = IF updates.role # Unset
                                     THEN updates.role ELSE @,
                        ![id].supervisor_id =
                            IF updates.supervisor_id # Unset
                            THEN updates.supervisor_id ELSE @]
               ELSE users
        /\ UNCHANGED <<reports, history, txns, organizations>>

\* (Variant: the rows that reference the user are not looked at.)
deleteUserUnchecked(id) ==
    LET res == IF id \notin DOMAIN users THEN "NotFound" ELSE "ok"
    IN  /\ lastOp' = AdminResponse("deleteUser", None, id, None, res)
        /\ users' = IF res = "ok"
                    THEN [u \in DOMAIN users \ {id} |-> users[u]]
                    ELSE users
        /\ UNCHANGED <<reports, history, txns, organizations>>

\* deleteUser(id): the statement fails while a user, a report or a history
\* row references the user (REFERENCES users(id) without ON DELETE).
deleteUser(id) ==
    LET res == IF id \notin DOMAIN users THEN "NotFound"
               ELSE IF ReferencedFrom({id}, DOMAIN users \ {id}, DOMAIN reports)
               THEN "InternalError"
               ELSE "ok"
    IN  /\ lastOp' = AdminResponse("deleteUser", None, id, None, res)
        /\ users' = IF res = "ok"
                    THEN [u \in DOMAIN users \ {id} |-> users[u]]
                    ELSE users
        /\ UNCHANGED <<reports, history, txns, organizations>>

\* The users the user runs start from, and the user they add.
BaseUserIds == {"S", "W", "C", "A"}

NewUserIds == {"N"}

\* The requests tried: an organization and a supervisor that exist or not,
\* roles of both hierarchies, and updates of the worker and the chief.
UserOrgInputs == OrgIds \cup NewOrgIds

CreateRoleInputs == {"triage_nurse", "police_chief"}

CreateSupervisorInputs == {None, "C", "A", "D2"}

UpdatedUserIds == {"W", "C"}

UserUpdates ==
    [role : {Unset, "police_worker", "police_chief"},
     supervisor_id : {Unset, None, "W", "A", "D2"}]

createUserOp ==
    /\ Idle
    /\ \E actor \in OrgActors, id \in NewUserIds \ DOMAIN users,
          orgId \in UserOrgInputs, role \in CreateRoleInputs,
          supervisorId \in CreateSupervisorInputs :
           createUser(actor, id, orgId, role, supervisorId)
    /\ UNCHANGED <<wsClients, storage, procs>>

updateUserOp ==
    /\ Idle
    /\ \E id \in UpdatedUserIds, updates \in UserUpdates :
           updateUser(id, updates)
    /\ UNCHANGED <<wsClients, storage, procs>>

deleteUserOp ==
    /\ Idle
    /\ \E id \in BaseUserIds \cup NewUserIds : deleteUser(id)
    /\ UNCHANGED <<wsClients, storage, procs>>

\* The store the user runs start from: the base users and no report, or one
\* draft as create leaves it.
InitUsers ==
    /\ users = [u \in BaseUserIds |-> AllUsers[u]]
    /\ txns = [t \in TxnIds |-> NoTxn]
    /\ lastOp = NoResponse
    /\ organizations = SeedOrganizations
    /\ wsClients = << >>
    /\ storage = NoSession
    /\ procs = [p \in ProcIds |-> NoProc]
    /\ \/ reports = << >> /\ history = << >>
       \/ \E c \in BaseUserIds, a \in BaseUserIds, schema_type \in ReportType,
             rid \in ReportIds :
              /\ AllUsers[c].role # "system_admin"
              /\ CanCreate(c, schema_type)
              /\ AllUsers[a].org_id = AllUsers[c].org_id
              /\ reports = (rid :> StoredReport(c, schema_type, a, "draft"))
              /\ history = (rid :> StoredHistory(c, "draft"))

NextUsers ==
    \/ createUserOp \/ updateUserOp \/ deleteUserOp
    \/ GetOp \/ HistoryOp \/ ListOp \/ Respond

SpecUsers == InitUsers /\ [][NextUsers]_vars

(* ---------------------------------------------------------------------- *)
(* WebSocket clients of the realtime service                                *)
(* ---------------------------------------------------------------------- *)
WsIds == {"c1", "c2"}

\* The users who open connections: the assignee of the stored report, the
\* chief of their organization and the attending of the other one.
WsUsers == {"W", "C", "A"}

\* wsServer.on('connection'): the connection joins the clients of the
\* server; nothing is asked of it.
connection(c, user) ==
    /\ c \notin DOMAIN wsClients
    /\ wsClients' = (c :> WsClient(user, "OPEN", NoMessage)) @@ wsClients
    /\ UNCHANGED <<users, reports, history, txns, lastOp>>

\* The client starts the closing handshake: its readyState leaves OPEN.
closing(c) ==
    /\ c \in DOMAIN wsClients
    /\ wsClients[c].readyState = "OPEN"
    /\ wsClients' = [wsClients EXCEPT ![c].readyState = "CLOSING"]
    /\ UNCHANGED <<users, reports, history, txns, lastOp>>

\* ws.on('close'): the connection leaves the clients of the server.
close(c) ==
    /\ c \in DOMAIN wsClients
    /\ wsClients[c].readyState = "CLOSING"
    /\ wsClients' = [x \in DOMAIN wsClients \ {c} |-> wsClients[x]]
    /\ UNCHANGED <<users, reports, history, txns, lastOp>>

connectionOp ==
    /\ \E c \in WsIds, user \in WsUsers : connection(c, user)
    /\ UNCHANGED <<organizations, storage, procs>>

closingOp ==
    /\ \E c \in WsIds : closing(c)
    /\ UNCHANGED <<organizations, storage, procs>>

closeOp ==
    /\ \E c \in WsIds : close(c)
    /\ UNCHANGED <<organizations, storage, procs>>

\* The store the realtime runs start from: no report, or a draft the police
\* worker created for themself.
InitWs ==
    /\ users = SeedUsers
    /\ txns = [t \in TxnIds |-> NoTxn]
    /\ lastOp = NoResponse
    /\ organizations = SeedOrganizations
    /\ wsClients = << >>
    /\ storage = NoSession
    /\ procs = [p \in ProcIds |-> NoProc]
    /\ \/ reports = << >> /\ history = << >>
       \/ \E rid \in ReportIds :
              /\ reports = (rid :> StoredReport("W", "incident", "W", "draft"))
              /\ history = (rid :> StoredHistory("W", "draft"))

NextWs == connectionOp \/ closingOp \/ closeOp \/ BroadcastOp \/ Respond

SpecWs == InitWs /\ [][NextWs]_vars

(* ---------------------------------------------------------------------- *)
(* Client session: login, logout and the 401 handler                        *)
(* ---------------------------------------------------------------------- *)
\* What the client operations leave alone: the backend.
Backend == <<users, reports, history, txns, lastOp, organizations, wsClients>>

\* The call p has ended: it returned or threw, or p never ran one.
Ended(p) == procs[p].at \in {None, "returned", "thrown"}

\* login(credentials) is called: it awaits the Cognito request.
login(p) ==
    /\ Ended(p)
    /\ procs' = [procs EXCEPT ![p] = Proc("login", "cognito", None)]
    /\ UNCHANGED storage

\* The Cognito request answers: with the IdToken, or with an error, which
\* the catch logs and throws as 'Login failed'.
loginCognito(p, ok) ==
    /\ procs[p] = Proc("login", "cognito", None)
    /\ procs' = [procs EXCEPT ![p] = IF ok THEN Proc("login", "setToken", p)
                                           ELSE Proc("login", "thrown", None)]
    /\ UNCHANGED storage

\* await AsyncStorage.setItem('authToken', token)
loginSetToken(p) ==
    /\ procs[p].kind = "login"
    /\ procs[p].at = "setToken"
    /\ storage' = [storage EXCEPT !.authToken = procs[p].token]
    /\ procs' = [procs EXCEPT ![p].at = "usersMe"]

\* GET /users/me answers: with the user, or with an error (no row for the
\* account, token refused, network), which the catch logs and throws.
loginUsersMe(p, ok) ==
    /\ procs[p].kind = "login"
    /\ procs[p].at = "usersMe"
    /\ procs' = [procs EXCEPT ![p].at = IF ok THEN "setUser" ELSE "thrown"]
    /\ UNCHANGED storage

\* await AsyncStorage.setItem('user', JSON.stringify(user)); return
loginSetUser(p) ==
    /\ procs[p].kind = "login"
    /\ procs[p].at = "setUser"
    /\ storage' = [storage EXCEPT !.user = procs[p].token]
    /\ procs' = [procs EXCEPT ![p].at = "returned"]

\* logout() is called, or a response with status 401 reaches the response
\* interceptor: both remove 'authToken' and then 'user'.
clear(p, kind) ==
    /\ Ended(p)
    /\ procs' = [procs EXCEPT ![p] = Proc(kind, "removeToken", None)]
    /\ UNCHANGED storage

\* await AsyncStorage.removeItem('authToken')
removeToken(p) ==
    /\ procs[p].at = "removeToken"
    /\ storage' = [storage EXCEPT !.authToken = None]
    /\ procs' = [procs EXCEPT ![p].at = "removeUser"]

\* await AsyncStorage.removeItem('user')
removeUser(p) ==
    /\ procs[p].at = "removeUser"
    /\ storage' = [storage EXCEPT !.user = None]
    /\ procs' = [procs EXCEPT ![p].at = "returned"]

\* isAuthenticated(): a token is stored.
isAuthenticated == storage.authToken # None

loginOp == (\E p \in ProcIds : login(p)) /\ UNCHANGED Backend

loginCognitoOp ==
    (\E p \in ProcIds, ok \in BOOLEAN : loginCognito(p, ok))
        /\ UNCHANGED Backend

loginSetTokenOp == (\E p \in ProcIds : loginSetToken(p)) /\ UNCHANGED Backend

loginUsersMeOp ==
    (\E p \in ProcIds, ok \in BOOLEAN : loginUsersMe(p, ok))
        /\ UNCHANGED Backend

loginSetUserOp == (\E p \in ProcIds : loginSetUser(p)) /\ UNCHANGED Backend

logoutOp == (\E p \in ProcIds : clear(p, "logout")) /\ UNCHANGED Backend

on401Op == (\E p \in ProcIds : clear(p, "on401")) /\ UNCHANGED Backend

removeTokenOp == (\E p \in ProcIds : removeToken(p)) /\ UNCHANGED Backend

removeUserOp == (\E p \in ProcIds : removeUser(p)) /\ UNCHANGED Backend

NextAuth ==
    \/ loginOp \/ loginCognitoOp \/ loginSetTokenOp \/ loginUsersMeOp
    \/ loginSetUserOp \/ logoutOp \/ on401Op \/ removeTokenOp
    \/ removeUserOp

SpecAuth == Init /\ [][NextAuth]_vars

(* ---------------------------------------------------------------------- *)
(* Properties                                                               *)
(* ---------------------------------------------------------------------- *)
Ops == {"create", "update", "delete"}

Failed(resp) == resp.op \in Ops /\ resp.result # "ok"

Succeeded(resp, op) == resp.op = op /\ resp.result = "ok"

\* C1: for every stored report R the versions of R's history entries are
\* exactly 1..R.version, without gaps or duplicates, so R has R.version
\* history entries.
C1_HistoryVersionsContiguous ==
    \A rid \in DOMAIN reports :
        /\ rid \in DOMAIN history
        /\ Len(history[rid]) = reports[rid].version
        /\ {history[rid][i].version : i \in 1..Len(history[rid])}
               = 1..reports[rid].version

\* C1 witness: a report that went through two committed updates.
C1_Witness ==
    \E rid \in DOMAIN reports :
        /\ reports[rid].version >= 3
        /\ Len(history[rid]) = reports[rid].version
        /\ Succeeded(lastOp, "update")

\* C2: a successful update sets the version to the previous version + 1, a
\* failed update leaves it unchanged, and no step makes the version of a
\* report decrease or skip a value.
C2_VersionStep ==
    [][\A rid \in DOMAIN reports \cap DOMAIN reports' :
          LET v == reports[rid].version
              w == reports'[rid].version
          IN  /\ w \in {v, v + 1}
              /\ (lastOp'.op = "update" /\ lastOp'.rid = rid /\ lastOp # lastOp')
                     => w = IF lastOp'.result = "ok" THEN v + 1 ELSE v]_vars

\* C2 witness: two successful updates in a row took a report to version 3 by
\* a state-only change.
C2_Witness ==
    \E rid \in DOMAIN reports :
        /\ reports[rid].version = 3
        /\ Succeeded(lastOp, "update")
        /\ lastOp.to # None /\ lastOp.data = None

\* TRUE iff another update was committed since session x read the report.
Stale(x) ==
    x.rid \in DOMAIN reports /\ reports[x.rid].version # x.read

\* C3: of two updates that read the same version of a report, the first to
\* be sent commits and advances the version by exactly 1; the other, sent
\* when the stored version is no longer the version it read, is answered
\* Conflict and writes nothing, so the committed change is not overwritten.
C3_OptimisticConcurrency ==
    [][\A t \in TxnIds :
          (txns[t].status = "read" /\ txns'[t].status = "idle") =>
              LET x == txns[t]
              IN  /\ Stale(x) => /\ lastOp'.result = "Conflict"
                                 /\ reports' = reports
                                 /\ history' = history
                  /\ (x.rid \in DOMAIN reports /\ lastOp'.result = "ok")
                         => reports'[x.rid].version = x.read + 1]_vars

\* C4: a create, update or delete that fails (NotFound, AccessDenied,
\* InvalidTransition, ValidationError, Conflict, StoreUnavailable) leaves the
\* stored reports and history entries as they were, every report still
\* paired with its history entries.
C4_FailureLeavesStoreUnchanged ==
    [][(Failed(lastOp') /\ lastOp' # lastOp) =>
          /\ reports' = reports
          /\ history' = history
          /\ DOMAIN history' = DOMAIN reports'
          /\ \A rid \in DOMAIN reports' :
                 Len(history'[rid]) = reports'[rid].version]_vars

\* C4 witness: a delete was refused on a report that had been updated.
C4_Witness ==
    /\ lastOp.op = "delete" /\ lastOp.result \in {"ValidationError", "AccessDenied"}
    /\ lastOp.rid \in DOMAIN reports
    /\ reports[lastOp.rid].version >= 2
    /\ Len(history[lastOp.rid]) = reports[lastOp.rid].version

\* The state changes the lifecycle table of the specification allows.
C5_ClaimedTransitions ==
    {<<"draft", "in_progress">>, <<"in_progress", "under_review">>,
     <<"in_progress", "draft">>, <<"under_review", "locked">>,
     <<"under_review", "in_progress">>}

\* C5: an update that requests a state succeeds only for the pairs
\* draft->in_progress, in_progress->under_review, in_progress->draft,
\* under_review->locked and under_review->in_progress; for every other pair
\* (same-state requests included) it is answered InvalidTransition, whoever
\* the actor is.
C5_OnlyClaimedTransitions ==
    (lastOp.op = "update" /\ lastOp.to # None /\ lastOp.from # None
     /\ lastOp.result # "StoreUnavailable")
        => IF <<lastOp.from, lastOp.to>> \in C5_ClaimedTransitions
           THEN lastOp.result # "InvalidTransition"
           ELSE lastOp.result = "InvalidTransition"

\* C6: locked is terminal: a report that is locked is still stored and still
\* locked after every step.
C6_LockedIsTerminal ==
    [][\A rid \in DOMAIN reports :
          reports[rid].state = "locked" =>
              /\ rid \in DOMAIN reports'
              /\ reports'[rid].state = "locked"]_vars

\* C6 witness: a reviewer asked to reopen a locked report and was refused.
C6_Witness ==
    /\ lastOp.op = "update" /\ lastOp.from = "locked"
    /\ lastOp.to = "in_progress" /\ lastOp.result = "InvalidTransition"
    /\ IsReviewer(lastOp.actor)
    /\ reports[lastOp.rid].state = "locked"

C8_ReviewerRoles == {"police_chief", "er_attending", "system_admin"}

\* C8: update(actor, R, {state: locked}) succeeds only if R was under_review,
\* the actor's role is police_chief, er_attending or system_admin, and the
\* actor's organization is R's organization.
C8_LockOnlyFromUnderReview ==
    (Succeeded(lastOp, "update") /\ lastOp.to = "locked")
        => /\ lastOp.from = "under_review"
           /\ users[lastOp.actor].role \in C8_ReviewerRoles
           /\ users[lastOp.actor].org_id = reports[lastOp.rid].org_id

C10_TableRow(actor, r) ==
    LET role == users[actor].role
    IN  CASE role \in {"dispatcher", "triage_nurse"} ->
                r.state = "draft" /\ r.created_by = actor
          [] role \in {"police_worker", "er_paramedic", "er_doctor"} ->
                r.state \in {"draft", "in_progress"} /\ r.assigned_to = actor
          [] role \in {"police_chief", "er_attending"} ->
                r.state \in {"draft", "in_progress"}
                /\ Supervises(actor, r.assigned_to)
          [] OTHER -> FALSE

\* C10: a data-only update by an actor who is not the administrator is
\* accepted exactly when the capability-table row of the actor's role holds,
\* and is denied otherwise; so no such actor changes the data of a report
\* under review.
C10_EditFollowsTable ==
    (lastOp.op = "update" /\ lastOp.data # None /\ lastOp.to = None
     /\ lastOp.assign = None /\ lastOp.rid \in DOMAIN reports
     /\ ~IsAdmin(lastOp.actor))
        => /\ lastOp.result \in {"ok", "AccessDenied"}
           /\ lastOp.result = "ok"
                  <=> C10_TableRow(lastOp.actor, reports[lastOp.rid])
           /\ reports[lastOp.rid].state = "under_review"
                  => lastOp.result = "AccessDenied"

\* The delete condition of the capability table, per role.
C11_DeleteCondition(actor, r) ==
    LET role == users[actor].role
    IN  CASE role = "system_admin" -> TRUE
          [] role \in {"dispatcher", "triage_nurse"} -> r.created_by = actor
          [] role \in {"police_worker", "er_paramedic"} -> r.assigned_to = actor
          [] role \in {"police_chief", "er_doctor", "er_attending"} ->
                Supervises(actor, r.assigned_to)

\* C11: a delete of a stored report succeeds exactly when the report is in
\* draft and the delete condition of the actor's role holds; a delete of a
\* report in in_progress, under_review or locked fails for every role and
\* the report and its history remain.
C11_DeleteFollowsTable ==
    [][(lastOp'.op = "delete" /\ lastOp' # lastOp
        /\ lastOp'.rid \in DOMAIN reports) =>
          LET r == reports[lastOp'.rid]
          IN  /\ lastOp'.result = "ok"
                     <=> (r.state = "draft"
                          /\ C11_DeleteCondition(lastOp'.actor, r))
              /\ r.state # "draft"
                     => /\ reports' = reports
                        /\ history' = history]_vars

\* The schema types the capability table lets each role create.
C12_CreatorSet(role) ==
    CASE role \in {"dispatcher", "police_worker", "police_chief"} -> {"incident"}
      [] role \in {"triage_nurse", "er_paramedic", "er_doctor", "er_attending"} ->
            {"medical_chart"}
      [] OTHER -> {}

\* C12: a create by an actor whose role is not entitled to the requested
\* schema_type (system_admin for either type) is answered AccessDenied and
\* stores neither a report nor a history entry.
C12_CreateNeedsEntitlement ==
    (lastOp.op = "create" /\ lastOp.actor # None
     /\ lastOp.schema_type \notin C12_CreatorSet(users[lastOp.actor].role))
        => /\ lastOp.result = "AccessDenied"
           /\ lastOp.rid \notin DOMAIN reports
           /\ lastOp.rid \notin DOMAIN history

\* C13: a successful create stores, in one step, a report that did not
\* exist before, with version 1, state draft and created_by the actor, and
\* exactly one history entry for it: version 1, modified_by the actor, data
\* the data passed in.
C13_CreateResult ==
    [][(Succeeded(lastOp', "create") /\ lastOp' # lastOp) =>
          LET rid == lastOp'.rid
          IN  /\ rid \notin DOMAIN reports /\ rid \notin DOMAIN history
              /\ rid \in DOMAIN reports' /\ rid \in DOMAIN history'
              /\ reports'[rid].version = 1
              /\ reports'[rid].state = "draft"
              /\ reports'[rid].created_by = lastOp'.actor
              /\ reports'[rid].data = lastOp'.data
              /\ history'[rid] =
                     <<HistoryEntry(lastOp'.actor, lastOp'.data, 1)>>]_vars

\* C13 witness: the dispatcher created a report with data d1 for the
\* worker.
C13_Witness ==
    /\ Succeeded(lastOp, "create")
    /\ users[lastOp.actor].role = "dispatcher"
    /\ lastOp.data = "d1" /\ lastOp.assign = "W"
    /\ reports[lastOp.rid].data = "d1"
    /\ Len(history[lastOp.rid]) = 1

\* TRUE iff the creator and the assignee of every stored report belong to
\* the report's organization.
C14_SameOrg ==
    \A rid \in DOMAIN reports :
        /\ users[reports[rid].created_by].org_id = reports[rid].org_id
        /\ users[reports[rid].assigned_to].org_id = reports[rid].org_id

C15_MayView(actor, r) ==
    \/ users[actor].role = "system_admin"
    \/ actor = r.created_by
    \/ actor = r.assigned_to
    \/ ReachableUp(actor, r.assigned_to, MaxHops)
    \/ /\ users[actor].role \in {"police_chief", "er_attending"}
       /\ users[actor].org_id = r.org_id

C16_ListIsViewable ==
    lastOp.op = "list" =>
        lastOp.body =
            {rid \in DOMAIN reports :
                /\ C15_MayView(lastOp.actor, reports[rid])
                /\ lastOp.to # None => reports[rid].state = lastOp.to
                /\ lastOp.assign # None
                       => reports[rid].assigned_to = lastOp.actor}

C18_Versions(h) == [i \in 1..Len(h) |-> h[i].version]

\* The modifiers of a sequence of history entries, in order.
C18_Modifiers(h) == [i \in 1..Len(h) |-> h[i].modified_by]

\* C18: the lifecycle trace can be executed step by step. Dispatcher D may
\* create an incident report for worker W; on every report D created for W,
\* W is granted draft -> in_progress on the draft and in_progress ->
\* under_review after it, and chief C is granted under_review -> locked; and
\* once the report is locked at version 4 after the changes of D, W, W and
\* C, a data update by W is answered AccessDenied and the history read by W
\* or C is the 4 entries of versions 1, 2, 3, 4 in that order.
C18_LifecycleScenario ==
    /\ CanCreate("D", "incident") /\ users["W"].org_id = users["D"].org_id
    /\ Supervises("C", "W")
    /\ \A rid \in DOMAIN reports :
         LET r == reports[rid]
         IN  (r.created_by = "D" /\ r.assigned_to = "W") =>
               /\ r.state = "draft" =>
                     UpdateOutcome("W", r, Patch("in_progress", None, None)) = "ok"
               /\ r.state = "in_progress" =>
                     UpdateOutcome("W", r, Patch("under_review", None, None)) = "ok"
               /\ r.state = "under_review" =>
                     UpdateOutcome("C", r, Patch("locked", None, None)) = "ok"
               /\ (r.state = "locked" /\ r.version = 4
                   /\ C18_Modifiers(history[rid]) = <<"D", "W", "W", "C">>) =>
                     /\ UpdateOutcome("W", r, Patch(None, "d1", None))
                            = "AccessDenied"
                     /\ (lastOp.op = "update" /\ lastOp.actor = "W"
                         /\ lastOp.rid = rid /\ lastOp.data # None
                         /\ lastOp.to = None /\ lastOp.assign = None)
                            => lastOp.result = "AccessDenied"
                     /\ (lastOp.op = "history" /\ lastOp.actor \in {"W", "C"}
                         /\ lastOp.rid = rid)
                            => /\ lastOp.result = "ok"
                               /\ C18_Versions(lastOp.body) = <<1, 2, 3, 4>>
                               /\ lastOp.body = history[rid]

\* C18 witness: after the changes of D, W, W and C the report is locked at
\* version 4 and the chief read its 4 history entries.
C18_Witness ==
    /\ lastOp.op = "history" /\ lastOp.actor = "C" /\ lastOp.result = "ok"
    /\ reports[lastOp.rid].created_by = "D"
    /\ reports[lastOp.rid].assigned_to = "W"
    /\ reports[lastOp.rid].state = "locked"
    /\ reports[lastOp.rid].data = "d0"
    /\ C18_Modifiers(history[lastOp.rid]) = <<"D", "W", "W", "C">>
    /\ C18_Versions(lastOp.body) = <<1, 2, 3, 4>>

\* The broadcaster was called and its publish failed.
BroadcastFailed ==
    /\ lastOp.op = "broadcast"
    /\ lastOp.broadcast.outcome \notin {None, "published"}

\* C19: a failure of the realtime broadcaster is only logged: the caller of
\* the broadcaster is answered normally, so that the create, update or
\* delete that called it still returns success.
C19_BroadcastFailureOnlyLogged ==
    BroadcastFailed => /\ lastOp.broadcast.outcome = "logged"
                       /\ lastOp.result = "ok"

\* C20: every successful create, update and delete makes one notification
\* attempt to the realtime broadcaster for that report; an operation that
\* failed makes none.
C20_SuccessIsBroadcast ==
    [][(lastOp.op = None /\ lastOp'.op \in Ops) =>
          IF lastOp'.result = "ok"
          THEN /\ lastOp'.broadcast.outcome \in {"published", "thrown"}
               /\ lastOp'.broadcast.reportId = lastOp'.rid
          ELSE lastOp'.broadcast = NoBroadcast]_vars

\* h is an initial part of g.
IsPrefix(h, g) ==
    /\ Len(h) <= Len(g)
    /\ \A i \in 1..Len(h) : g[i] = h[i]

\* C21: history is append-only: across every step in which a report still
\* exists, each of its history entries is kept with the same version,
\* modified_by and data, and at most the entry of the new version is added.
C21_HistoryAppendOnly ==
    [][\A rid \in DOMAIN reports \cap DOMAIN reports' :
          /\ IsPrefix(history[rid], history'[rid])
          /\ Len(history'[rid]) <= Len(history[rid]) + 1
          /\ Len(history'[rid]) = Len(history[rid]) + 1 =>
                 /\ Succeeded(lastOp', "update")
                 /\ history'[rid][Len(history'[rid])].version
                        = reports'[rid].version]_vars

C21_Witness ==
    /\ Succeeded(lastOp, "update")
    /\ lastOp.rid \in DOMAIN reports
    /\ Len(history[lastOp.rid]) = 3
    /\ history[lastOp.rid][1].data # history[lastOp.rid][3].data
    /\ history[lastOp.rid][1].modified_by # history[lastOp.rid][3].modified_by

\* An update step that carries both a state and data, on a stored report.
C25_CombinedUpdateStep ==
    /\ lastOp.op = None
    /\ lastOp'.op = "update"
    /\ lastOp'.to # None
    /\ lastOp'.data # None
    /\ lastOp'.rid \in DOMAIN reports

\* C25: for a patch with both state and data the data permission is taken on
\* the state before the call; an accepted patch moves the state, raises the
\* version by 1 and appends one history entry with the resulting data; a
\* refused patch changes neither state nor data.
C25_CombinedPatch ==
    [][C25_CombinedUpdateStep =>
          LET rid == lastOp'.rid
              r == reports[rid]
              actor == lastOp'.actor
              accepted == /\ <<r.state, lastOp'.to>> \in ValidTransitions
                          /\ TransitionPermitted(actor, r, lastOp'.to)
                          /\ CanEdit(actor, r)
          IN  IF accepted
              THEN /\ lastOp'.result = "ok"
                   /\ reports'[rid].state = lastOp'.to
                   /\ reports'[rid].data = lastOp'.data
                   /\ reports'[rid].version = r.version + 1
                   /\ history'[rid]
                        = Append(history[rid],
                                 HistoryEntry(actor, lastOp'.data, r.version + 1))
              ELSE /\ lastOp'.result \in {"InvalidTransition", "AccessDenied"}
                   /\ reports' = reports
                   /\ history' = history]_vars

\* The assignee submits an in_progress report with new data in one call.
C25_Witness ==
    /\ Succeeded(lastOp, "update")
    /\ lastOp.from = "in_progress"
    /\ lastOp.to = "under_review"
    /\ lastOp.data = "d1"
    /\ lastOp.rid \in DOMAIN reports
    /\ reports[lastOp.rid].assigned_to = lastOp.actor
    /\ users[lastOp.actor].role = "police_worker"
    /\ ~CanEdit(lastOp.actor, reports[lastOp.rid])
    /\ reports[lastOp.rid].data = "d1"

\* C27: the history entry whose version is the report's version holds the
\* report's data; an update of the state alone appends an entry with the
\* snapshot of the entry before it.
C27_SnapshotIsCurrentData ==
    \A rid \in DOMAIN reports :
        /\ reports[rid].version \in 1..Len(history[rid])
        /\ history[rid][reports[rid].version].version = reports[rid].version
        /\ history[rid][reports[rid].version].data = reports[rid].data
        /\ (/\ Succeeded(lastOp, "update")
            /\ lastOp.rid = rid
            /\ lastOp.data = None) =>
               history[rid][Len(history[rid])].data
                   = history[rid][Len(history[rid]) - 1].data

\* A state-only update after the data was edited.
C27_Witness ==
    /\ Succeeded(lastOp, "update")
    /\ lastOp.data = None
    /\ lastOp.to # None
    /\ lastOp.rid \in DOMAIN reports
    /\ Len(history[lastOp.rid]) = 3
    /\ history[lastOp.rid][1].data = "d0"
    /\ history[lastOp.rid][2].data = "d1"
    /\ history[lastOp.rid][3].data = "d1"

\* C22: after an organization is created no organization operation changes
\* its type: across every step the type of an organization that stays is
\* the type it had.
C22_TypeImmutable ==
    [][\A o \in DOMAIN organizations \cap DOMAIN organizations' :
          organizations'[o].type = organizations[o].type]_vars

\* C23: every user with a supervisor_id has a supervisor that exists and
\* whose role is entitled to supervise the user's role.
C23_SupervisorEntitled ==
    \A u \in DOMAIN users :
        users[u].supervisor_id # None =>
            /\ users[u].supervisor_id \in DOMAIN users
            /\ users[u].role \in
                  ROLE_PERMISSIONS[users[users[u].supervisor_id].role].canSupervise

\* User id is the creator or the assignee of a stored report.
OwnsReport(id) ==
    \E rid \in DOMAIN reports :
        reports[rid].created_by = id \/ reports[rid].assigned_to = id

C26_SupervisionAcyclic ==
    \A u \in DOMAIN users :
        ~ReachableUp(u, u, Cardinality(DOMAIN users))

\* C28: an actor who is not system_admin never gets, lists or reads the
\* history of a report of another organization.
C28_TenantIsolation ==
    (/\ lastOp.op \in {"get", "history", "list"}
     /\ lastOp.result = "ok"
     /\ lastOp.actor \in DOMAIN users
     /\ users[lastOp.actor].role # "system_admin") =>
        IF lastOp.op = "list"
        THEN \A rid \in lastOp.body :
                reports[rid].org_id = users[lastOp.actor].org_id
        ELSE reports[lastOp.rid].org_id = users[lastOp.actor].org_id

\* The user may receive the changes of the report: the report is stored, it
\* belongs to the user's organization and the user may view it.
C29_Authorized(user, reportId) ==
    /\ reportId \in DOMAIN reports
    /\ users[user].org_id = reports[reportId].org_id
    /\ CanView(user, reports[reportId])

\* C29: a report change is delivered only to connected clients that are
\* authorized for the report; a client of another organization never
\* receives it.
C29_DeliveredToAuthorized ==
    \A c \in DOMAIN wsClients :
        wsClients[c].received # NoMessage =>
            C29_Authorized(wsClients[c].user, wsClients[c].received.reportId)

\* No login, logout or 401 handler is in progress.
C30_Quiescent == \A p \in ProcIds : Ended(p)

\* C30: whenever no login, logout or 401 handler is in progress, 'authToken'
\* is stored if and only if 'user' is stored.
C30_SessionConsistent ==
    C30_Quiescent => (storage.authToken # None <=> storage.user # None)

====
